---- MODULE Spec2Model ----
(***************************************************************************)
(* A model of the Conan recipe conanfile.py: the class attributes of the   *)
(* recipe (settings, generators, default_options) and its two methods,     *)
(* requirements() and layout().  The package manager that loads the recipe *)
(* is external: its self.requires and cmake_layout are modelled as calls   *)
(* that are logged and either return or raise.  Two loads of the recipe    *)
(* (Runs) are modelled side by side, each under its own profile, so that   *)
(* statements comparing two configurations can be checked.                 *)
(* Strings whose syntax matters (package references, option keys) are      *)
(* sequences of one-character strings.                                     *)
(***************************************************************************)
EXTENDS Integers, Sequences, FiniteSets, TLC

VARIABLES settings, generators, default_options, settings_values,
          requires, calls, history

vars == <<settings, generators, default_options, settings_values,
          requires, calls, history>>

(* The total number of method invocations explored over all runs. *)
MaxCalls == 2

(* The loads of the recipe that are compared. *)
Runs == {"run1", "run2"}

(* The values the tool's profile may assign to the four build axes. *)
Profiles ==
  { [os |-> "Linux",   compiler |-> "gcc",         build_type |-> "Release", arch |-> "x86_64"],
    [os |-> "Windows", compiler |-> "msvc",        build_type |-> "Debug",   arch |-> "x86_64"],
    [os |-> "Macos",   compiler |-> "apple-clang", build_type |-> "Debug",   arch |-> "armv8"] }

(* What an external call can raise; "ok" is a normal return. *)
Errors == {"ConanException", "ConanInvalidConfiguration"}
Outcomes == {"ok"} \cup Errors

----------------------------------------------------------------------------
(* The class declaration. *)

(* A declaration that omits the architecture axis. *)
settings_decl_no_arch == <<"os", "compiler", "build_type">>

settings_decl == <<"os", "compiler", "build_type", "arch">>

(* A declaration that omits the dependency-metadata generator. *)
generators_decl_toolchain_only == <<"CMakeToolchain">>

generators_decl == <<"CMakeDeps", "CMakeToolchain">>

gtest_key == <<"g","t","e","s","t","/","*",":","s","h","a","r","e","d">>
fmt_key == <<"f","m","t","/","*",":","s","h","a","r","e","d">>
spdlog_key == <<"s","p","d","l","o","g","/","*",":","s","h","a","r","e","d">>

(* A declaration that leaves fmt static. *)
default_options_decl_fmt_static ==
  (gtest_key :> TRUE) @@ (fmt_key :> FALSE) @@ (spdlog_key :> TRUE)

default_options_decl ==
  (gtest_key :> TRUE) @@ (fmt_key :> TRUE) @@ (spdlog_key :> TRUE)

gtest_ref == <<"g","t","e","s","t","/","1",".","1","4",".","0">>
fmt_ref == <<"f","m","t","/","1","0",".","2",".","1">>
spdlog_ref == <<"s","p","d","l","o","g","/","1",".","1","4",".","1">>

(* Variants of requirements(): another fmt version, fmt required twice   *)
(* in place of spdlog, spdlog left out, gtest left out on Windows.        *)
fmt_ref_other == <<"f","m","t","/","1","0",".","2",".","0">>
requirements_refs_other_version(self) == <<gtest_ref, fmt_ref_other, spdlog_ref>>
requirements_refs_duplicate(self) == <<gtest_ref, fmt_ref, fmt_ref>>
requirements_refs_no_spdlog(self) == <<gtest_ref, fmt_ref>>
requirements_refs_by_os(self) ==
  IF settings_values[self].os = "Windows"
  THEN <<fmt_ref, spdlog_ref>>
  ELSE <<gtest_ref, fmt_ref, spdlog_ref>>

(* The arguments of the self.requires calls of requirements(), in order. *)
requirements_refs(self) == <<gtest_ref, fmt_ref, spdlog_ref>>

----------------------------------------------------------------------------
(* The syntax of references "name/version" and option keys               *)
(* "name/versionpattern:option".                                          *)

IndexOf(s, c) ==
  IF \E k \in 1..Len(s) : s[k] = c
  THEN CHOOSE k \in 1..Len(s) : s[k] = c /\ \A j \in 1..(k-1) : s[j] # c
  ELSE 0

Before(s, c) == IF IndexOf(s, c) = 0 THEN s ELSE SubSeq(s, 1, IndexOf(s, c) - 1)
After(s, c) == IF IndexOf(s, c) = 0 THEN <<>> ELSE SubSeq(s, IndexOf(s, c) + 1, Len(s))

RefName(ref) == Before(ref, "/")
RefVersion(ref) == After(ref, "/")

OptPackage(key) == Before(Before(key, ":"), "/")
OptVersionPattern(key) == After(Before(key, ":"), "/")
OptName(key) == After(key, ":")

----------------------------------------------------------------------------
(* Python's statement sequencing: a raise ends the method at that call.   *)

FirstRaise(o) ==
  IF \E k \in 1..Len(o) : o[k] # "ok"
  THEN CHOOSE k \in 1..Len(o) : o[k] # "ok" /\ \A j \in 1..(k-1) : o[j] = "ok"
  ELSE Len(o) + 1

(* How many of the calls are made, and how many of them return. *)
Made(o) == IF FirstRaise(o) > Len(o) THEN Len(o) ELSE FirstRaise(o)
Returned(o) == FirstRaise(o) - 1

(* A method that catches whatever its calls raise and returns normally. *)
Swallow(o) == "ok"

(* The method's own outcome: the exception of the raising call, unchanged. *)
Propagate(o) == IF FirstRaise(o) > Len(o) THEN "ok" ELSE o[FirstRaise(o)]

Invocations == LET RECURSIVE Sum(_)
                   Sum(S) == IF S = {} THEN 0
                             ELSE LET r == CHOOSE x \in S : TRUE
                                  IN Len(history[r]) + Sum(S \ {r})
               IN Sum(Runs)

----------------------------------------------------------------------------
Init ==
  /\ settings = [r \in Runs |-> settings_decl]
  /\ generators = [r \in Runs |-> generators_decl]
  /\ default_options = [r \in Runs |-> default_options_decl]
  /\ settings_values \in [Runs -> Profiles]
  /\ requires = [r \in Runs |-> <<>>]
  /\ calls = [r \in Runs |-> <<>>]
  /\ history = [r \in Runs |-> <<>>]

(* requirements() that also rewrites an option of the recipe. *)
requirements_mutating(self) ==
  /\ Invocations < MaxCalls
  /\ \E o \in [1..Len(requirements_refs(self)) -> Outcomes] :
       LET refs == requirements_refs(self)
           made == [k \in 1..Made(o) |->
                      [fn |-> "requires", self |-> self, ref |-> refs[k], outcome |-> o[k]]]
       IN /\ calls' = [calls EXCEPT ![self] = @ \o made]
          /\ requires' = [requires EXCEPT ![self] = @ \o SubSeq(refs, 1, Returned(o))]
          /\ history' = [history EXCEPT ![self] =
                           Append(@, [handler |-> "requirements", outcome |-> Propagate(o)])]
  /\ default_options' = [default_options EXCEPT ![self][fmt_key] = FALSE]
  /\ UNCHANGED <<settings, generators, settings_values>>

requirements(self) ==
  /\ Invocations < MaxCalls
  /\ \E o \in [1..Len(requirements_refs(self)) -> Outcomes] :
       LET refs == requirements_refs(self)
           made == [k \in 1..Made(o) |->
                      [fn |-> "requires", self |-> self, ref |-> refs[k], outcome |-> o[k]]]
       IN /\ calls' = [calls EXCEPT ![self] = @ \o made]
          /\ requires' = [requires EXCEPT ![self] = @ \o SubSeq(refs, 1, Returned(o))]
          /\ history' = [history EXCEPT ![self] =
                           Append(@, [handler |-> "requirements", outcome |-> Propagate(o)])]
  /\ UNCHANGED <<settings, generators, default_options, settings_values>>

(* layout() that declares a requirement of its own besides delegating. *)
layout_requiring(self) ==
  /\ Invocations < MaxCalls
  /\ \E o \in [1..1 -> Outcomes] :
       /\ calls' = [calls EXCEPT ![self] =
                      Append(@, [fn |-> "cmake_layout", self |-> self, ref |-> <<>>, outcome |-> o[1]])]
       /\ history' = [history EXCEPT ![self] =
                        Append(@, [handler |-> "layout", outcome |-> Propagate(o)])]
  /\ requires' = [requires EXCEPT ![self] = Append(@, gtest_ref)]
  /\ UNCHANGED <<settings, generators, default_options, settings_values>>

layout(self) ==
  /\ Invocations < MaxCalls
  /\ \E o \in [1..1 -> Outcomes] :
       /\ calls' = [calls EXCEPT ![self] =
                      Append(@, [fn |-> "cmake_layout", self |-> self, ref |-> <<>>, outcome |-> o[1]])]
       /\ history' = [history EXCEPT ![self] =
                        Append(@, [handler |-> "layout", outcome |-> Propagate(o)])]
  /\ UNCHANGED <<settings, generators, default_options, settings_values, requires>>

Next == \E self \in Runs : requirements(self) \/ layout(self)

Spec == Init /\ [][Next]_vars

----------------------------------------------------------------------------
(* Vocabulary of the properties. *)

gtest_name == <<"g","t","e","s","t">>
fmt_name == <<"f","m","t">>
spdlog_name == <<"s","p","d","l","o","g">>
PackageNames == {gtest_name, fmt_name, spdlog_name}

shared_name == <<"s","h","a","r","e","d">>
VersionChars == {"0","1","2","3","4","5","6","7","8","9","."}

Range(s) == {s[k] : k \in 1..Len(s)}

(* Some requirements() call of the run has returned normally. *)
Declared(r) ==
  \E k \in 1..Len(history[r]) :
    history[r][k].handler = "requirements" /\ history[r][k].outcome = "ok"

(* Every method call of the run has returned normally. *)
AllOk(r) == \A k \in 1..Len(history[r]) : history[r][k].outcome = "ok"

NumHandler(r, h) == Cardinality({k \in 1..Len(history[r]) : history[r][k].handler = h})

DeclaredNames(r) == {RefName(ref) : ref \in Range(requires[r])}

SharedPackages(r) ==
  {OptPackage(key) : key \in {q \in DOMAIN default_options[r] : OptName(q) = shared_name}}

IsRaise(x) == x # "ok"
RaisedBy(log) == SelectSeq([k \in 1..Len(log) |-> log[k].outcome], IsRaise)

----------------------------------------------------------------------------
(* C1: every requirement the recipe has declared carries its pinned        *)
(* version as an exact version string (gtest 1.14.0, fmt 10.2.1, spdlog    *)
(* 1.14.1; digits and dots only, so no range), and once requirements()    *)
(* has returned, each of the three is declared at that version.           *)
C1_PinnedVersions ==
  \A r \in Runs :
    /\ \A ref \in Range(requires[r]) :
         /\ RefName(ref) = gtest_name => RefVersion(ref) = <<"1",".","1","4",".","0">>
         /\ RefName(ref) = fmt_name => RefVersion(ref) = <<"1","0",".","2",".","1">>
         /\ RefName(ref) = spdlog_name => RefVersion(ref) = <<"1",".","1","4",".","1">>
         /\ Range(RefVersion(ref)) \subseteq VersionChars
         /\ RefVersion(ref) # <<>>
    /\ Declared(r) =>
         /\ gtest_name \o <<"/">> \o <<"1",".","1","4",".","0">> \in Range(requires[r])
         /\ fmt_name \o <<"/">> \o <<"1","0",".","2",".","1">> \in Range(requires[r])
         /\ spdlog_name \o <<"/">> \o <<"1",".","1","4",".","1">> \in Range(requires[r])

C1_Witness == \E r \in Runs : Declared(r) /\ Len(requires[r]) = 3

(* C2: in every run, each of gtest, fmt and spdlog has a default option   *)
(* "shared" that applies to every version (pattern "*") and is True, and   *)
(* no "shared" entry is False.                                             *)
C2_SharedTrue ==
  \A r \in Runs :
    /\ \A name \in PackageNames :
         \E key \in DOMAIN default_options[r] :
           /\ OptPackage(key) = name
           /\ OptVersionPattern(key) = <<"*">>
           /\ OptName(key) = shared_name
           /\ default_options[r][key] = TRUE
    /\ \A key \in DOMAIN default_options[r] :
         OptName(key) = shared_name => default_options[r][key] = TRUE

C2_Witness ==
  \E r \in Runs :
    /\ Declared(r)
    /\ Cardinality(DOMAIN default_options[r]) = 3
    /\ \A key \in DOMAIN default_options[r] : default_options[r][key] = TRUE

(* C3: the declared settings are exactly os, compiler, build_type and     *)
(* arch: all four, each once, and nothing else.                           *)
C3_SettingsExact ==
  \A r \in Runs :
    /\ Range(settings[r]) = {"os", "compiler", "build_type", "arch"}
    /\ Len(settings[r]) = 4

C3_Witness ==
  \E r \in Runs :
    /\ Len(history[r]) >= 1
    /\ Range(settings[r]) = DOMAIN settings_values[r]

(* C4: a run in which requirements() has been called exactly once, and    *)
(* has returned, holds exactly three requirements: gtest, fmt and spdlog,  *)
(* each once.                                                             *)
C4_ThreeRequirements ==
  \A r \in Runs :
    (NumHandler(r, "requirements") = 1 /\ Declared(r)) =>
      /\ Len(requires[r]) = 3
      /\ DeclaredNames(r) = PackageNames
      /\ Cardinality(DeclaredNames(r)) = Len(requires[r])

C4_Witness ==
  \E r \in Runs :
    /\ NumHandler(r, "requirements") = 1
    /\ Declared(r)
    /\ Cardinality(Range(requires[r])) = 3

(* C5: whatever calls of requirements() and layout() have happened, in    *)
(* whatever order, the settings, generators and default_options of the    *)
(* recipe are those of the class declaration.                             *)
C5_DeclarationsKept ==
  \A r \in Runs :
    /\ settings[r] = settings_decl
    /\ generators[r] = generators_decl
    /\ default_options[r] = default_options_decl

C5_Witness ==
  \E r \in Runs :
    /\ Len(history[r]) = 2
    /\ history[r][1].handler = "layout"
    /\ history[r][2].handler = "requirements"
    /\ Len(requires[r]) = 3
    /\ default_options[r][fmt_key] = TRUE

(* C6: the declared generators are exactly CMakeDeps and CMakeToolchain,  *)
(* each once, both given by name.                                         *)
C6_GeneratorsExact ==
  \A r \in Runs :
    /\ Range(generators[r]) = {"CMakeDeps", "CMakeToolchain"}
    /\ Len(generators[r]) = 2

C6_Witness ==
  \E r \in Runs :
    /\ NumHandler(r, "layout") >= 1
    /\ generators[r][1] = "CMakeDeps"
    /\ generators[r][2] = "CMakeToolchain"

(* C7: two runs that made the same number of requirements() calls, all of *)
(* whose method calls returned, hold the same requirements and the same   *)
(* options, whatever values their profiles give the four axes.            *)
C7_AxesNotInterpreted ==
  \A r1 \in Runs : \A r2 \in Runs :
    (/\ AllOk(r1)
     /\ AllOk(r2)
     /\ NumHandler(r1, "requirements") = NumHandler(r2, "requirements")) =>
      /\ requires[r1] = requires[r2]
      /\ default_options[r1] = default_options[r2]

C7_Witness ==
  \E r1 \in Runs : \E r2 \in Runs :
    /\ settings_values[r1].os # settings_values[r2].os
    /\ settings_values[r1].compiler # settings_values[r2].compiler
    /\ settings_values[r1].build_type # settings_values[r2].build_type
    /\ settings_values[r1].arch # settings_values[r2].arch
    /\ AllOk(r1) /\ AllOk(r2)
    /\ NumHandler(r1, "requirements") = 1
    /\ NumHandler(r2, "requirements") = 1
    /\ Len(requires[r1]) = 3

(* C8: a step that is a call of layout() makes exactly one external call, *)
(* cmake_layout with the recipe itself, and leaves the requirements, the   *)
(* options, the settings and the generators as they were.                 *)
C8_LayoutDelegates ==
  [][\A r \in Runs :
       (/\ Len(history'[r]) = Len(history[r]) + 1
        /\ history'[r][Len(history'[r])].handler = "layout") =>
         /\ Len(calls'[r]) = Len(calls[r]) + 1
         /\ SubSeq(calls'[r], 1, Len(calls[r])) = calls[r]
         /\ calls'[r][Len(calls'[r])].fn = "cmake_layout"
         /\ calls'[r][Len(calls'[r])].self = r
         /\ requires' = requires
         /\ default_options' = default_options
         /\ settings' = settings
         /\ generators' = generators]_vars

C8_Witness ==
  \E r \in Runs :
    /\ Len(history[r]) = 2
    /\ history[r][1] = [handler |-> "requirements", outcome |-> "ok"]
    /\ history[r][2] = [handler |-> "layout", outcome |-> "ok"]
    /\ Len(requires[r]) = 3
    /\ Len(calls[r]) = 4
    /\ calls[r][4].fn = "cmake_layout"

(* C9: the failures of the recipe's methods are exactly the failures of   *)
(* its external calls: in every run the exceptions the methods ended with, *)
(* in order, are the exceptions self.requires and cmake_layout raised, in  *)
(* order, and a method ends with the outcome of the last call it made.     *)
C9_ErrorsPropagate ==
  \A r \in Runs :
    /\ RaisedBy(history[r]) = RaisedBy(calls[r])
    /\ history[r] # <<>> =>
         history[r][Len(history[r])].outcome = calls[r][Len(calls[r])].outcome

C9_Witness ==
  \E r \in Runs :
    /\ Len(history[r]) = 2
    /\ history[r][1] = [handler |-> "requirements", outcome |-> "ConanException"]
    /\ history[r][2] = [handler |-> "layout", outcome |-> "ConanInvalidConfiguration"]
    /\ Len(calls[r]) = 3
    /\ calls[r][1].outcome = "ok"
    /\ calls[r][2].outcome = "ConanException"

(* C10: the packages with a shared option and the declared packages       *)
(* correspond: every declared package has a shared option, and once       *)
(* requirements() has returned, every package with a shared option is     *)
(* declared.                                                              *)
C10_OptionsMatchRequirements ==
  \A r \in Runs :
    /\ DeclaredNames(r) \subseteq SharedPackages(r)
    /\ Declared(r) => DeclaredNames(r) = SharedPackages(r)

C10_Witness ==
  \E r \in Runs :
    /\ Declared(r)
    /\ Cardinality(SharedPackages(r)) = 3
    /\ Cardinality(DeclaredNames(r)) = 3

====
